---- MODULE Spec2Model ----
(***************************************************************************)
(* Verification model of the taskflow execution core:                      *)
(*   - TaskAction (engines/action_engine/task_action.py): the state        *)
(*     machine wrapper that drives one task through execute/revert and     *)
(*     persists state, result and progress in engine storage;              *)
(*   - _execute_task / _revert_task (engines/action_engine/executor.py):   *)
(*     the functions the executors run, possibly concurrently.             *)
(*                                                                         *)
(* Values.  A stored or returned value is a record [kind, v]: None, a      *)
(* plain value, or a Failure wrapping an exception.  Exceptions are        *)
(* strings, "none" meaning that nothing is being raised.  Progress values  *)
(* are the strings "0.0", "0.5", "1.0".                                    *)
(***************************************************************************)
EXTENDS Integers, Sequences, FiniteSets, TLC

VARIABLES
    storage,       \* engine.storage entry of the task: [state, result, progress]
    taskProgress,  \* last value pushed to the task by task.update_progress
    bound,         \* TRUE while _on_update_progress is bound by _autobind
    pc,            \* position of the TaskAction call in progress ("idle": none)
    frame,         \* locals of the TaskAction call in progress / last finished
    outcome,       \* how the last finished TaskAction call ended
    entry,         \* storage as it was when the current/last call was entered
    trace,         \* calls made on the collaborators by the current/last call
    calls,         \* executor.py: one record per _execute_task/_revert_task run
    notifier,      \* executor.py: registrations per task notifier and callback
    callerArgs,    \* executor.py: the arguments mapping object of each caller
    serial,        \* SerialTaskExecutor: submissions, returned futures, completions
    proc,          \* ParallelProcessTaskExecutor: the submission in flight
    par,           \* ParallelTaskExecutor: its fields and the worker pools
    retry,         \* retry.py: the controller asked and what it answered
    engine,        \* storage registry used by TaskAction.__init__
    reflect        \* reflection.py: the callable inspected and the answer

taVars == <<storage, taskProgress, bound, pc, frame, outcome, entry, trace>>
exVars == <<calls, notifier, callerArgs>>
restVars == <<serial, proc, par, retry, engine, reflect>>
vars == <<storage, taskProgress, bound, pc, frame, outcome, entry, trace,
          calls, notifier, callerArgs,
          serial, proc, par, retry, engine, reflect>>

-----------------------------------------------------------------------------
(* Bounds of the model *)

\* progress events one task body may emit
MaxProgressEvents == 2
\* _execute_task/_revert_task runs the thread pool has in flight at once
MaxCalls == 2
\* submissions made to the serial executor
MaxSubmissions == 3
\* worker pools a parallel executor creates for itself
MaxPools == 2
\* submitted and not yet finished work of one worker pool
MaxInflight == 2
\* the max_workers argument a parallel executor may be constructed with
MaxWorkers == 2

\* largest attempts argument of Times
MaxAttempts == 3
\* length of the history handed to a retry controller
MaxHistory == 3
\* length of the candidate sequence of ForEach / ParameterizedForEach
MaxValues == 3
\* candidate values are 1..MaxItem
MaxItem == 2

\* TaskAction objects constructed against one storage
MaxConstructions == 3

\* storage knows no uuid for a name
NoUuid == 0
\* task names
Names == {"n1", "n2"}
\* task.save_as of the task objects handed to TaskAction
ResultMappings == {"m1", "m2"}

\* positional parameters of an inspected signature
MaxParams == 3

\* parameter names in declaration order; for a method, a class initializer
\* and a call operator the first one is the instance-binding parameter
ParamPool == <<"p", "a", "b", "c", "d", "e">>
\* a signature: the named positional parameters and how many of them, the
\* last ones, have a default
Sigs == UNION {{[args |-> SubSeq(ParamPool, 1, k), ndefaults |-> d] :
                    d \in 0..k} : k \in 0..MaxParams}
EmptySig == [args |-> <<>>, ndefaults |-> 0]
\* the object has no __wrapped__ attribute
NoWrapped == [present |-> FALSE, sig |-> EmptySig]
NoCallable == [kind |-> "none", sig |-> EmptySig, wrapped |-> NoWrapped]
\* the callables handed to the reflection helpers: for a function or method
\* sig is its own signature, for a class that of __init__, for any other
\* callable object that of __call__
Callables ==
    {[kind |-> k, sig |-> sg, wrapped |-> w] :
        k \in {"function", "bound_method", "unbound_method"},
        sg \in Sigs,
        w \in {NoWrapped} \cup {[present |-> TRUE, sig |-> ws] : ws \in Sigs}}
    \cup {[kind |-> k, sig |-> sg, wrapped |-> NoWrapped] :
            k \in {"class", "callable_object"}, sg \in Sigs}

\* self._executor is None
NoPool == 0
\* max_workers=None
NoMaxWorkers == 0

-----------------------------------------------------------------------------
(* states.py constants used by task_action.py *)

PENDING == "PENDING"
RUNNING == "RUNNING"
SUCCESS == "SUCCESS"
FAILURE == "FAILURE"
REVERTING == "REVERTING"
REVERTED == "REVERTED"

States == {PENDING, RUNNING, SUCCESS, FAILURE, REVERTING, REVERTED}

RESET_TASK_STATES_Never == {}
RESET_TASK_STATES == {PENDING}
SAVE_RESULT_STATES == {SUCCESS, FAILURE}
ALREADY_FINISHED_STATES_None == {}
ALREADY_FINISHED_STATES == {SUCCESS}
NEVER_RAN_STATES_None == {}
NEVER_RAN_STATES == {PENDING}

-----------------------------------------------------------------------------
(* Values *)

None == [kind |-> "None", v |-> "None"]
Value(x) == [kind |-> "Value", v |-> x]
\* misc.Failure() / failure.Failure(): wraps the exception being handled
Failure(e) == [kind |-> "Failure", v |-> e]
\* Failure.reraise(): raises the wrapped exception again
Reraise(f) == f.v

\* what a task body may return, and what it may raise
Results == {Value("r1"), Value("r2")}
Exceptions == {"E1", "E2"}
\* what storage raises when it cannot persist a progress update
StorageError == "StorageError"
\* what storage raises when fetch_mapped_args or get fails
FetchError == "FetchError"
\* progress values a task body reports through update_progress
BodyProgress == {"0.5"}

-----------------------------------------------------------------------------
(* engine.storage, one task entry *)

StorageReset(st) == [st EXCEPT !.result = None]
StorageSave(st, result, state) == [st EXCEPT !.result = result, !.state = state]
StorageSetTaskState(st, state) == [st EXCEPT !.state = state]
StorageSetTaskProgress(st, progress) == [st EXCEPT !.progress = progress]

Ev(op, state, val) == [op |-> op, state |-> state, val |-> val]
Prog(p) == [kind |-> "Progress", v |-> p]

\* the storage calls TaskAction._change_state makes before the progress update
ChangeStatePersist(st, state, result) ==
    LET st1 == IF state \in RESET_TASK_STATES THEN StorageReset(st) ELSE st
    IN  IF state \in SAVE_RESULT_STATES
        THEN StorageSave(st1, result, state)
        ELSE StorageSetTaskState(st1, state)

ChangeStatePersistTrace(state, result) ==
    (IF state \in RESET_TASK_STATES
     THEN <<Ev("storage.reset", state, None)>> ELSE <<>>)
    \o (IF state \in SAVE_RESULT_STATES
        THEN <<Ev("storage.save", state, result)>>
        ELSE <<Ev("storage.set_task_state", state, None)>>)

\* TaskAction._change_state(engine, state, result, progress); progress is a
\* progress string or "None"
ChangeState(st, state, result, progress) ==
    LET st2 == ChangeStatePersist(st, state, result)
    IN  IF progress # "None" THEN StorageSetTaskProgress(st2, progress) ELSE st2

ChangeStateTraceHookFirst(state, result, progress) ==
    <<Ev("engine.on_task_state_change", state, result)>>
    \o ChangeStatePersistTrace(state, result)
    \o (IF progress # "None"
        THEN <<Ev("storage.set_task_progress", state, Prog(progress))>>
        ELSE <<>>)
\* the calls _change_state makes, in order
ChangeStateTrace(state, result, progress) ==
    ChangeStatePersistTrace(state, result)
    \o (IF progress # "None"
        THEN <<Ev("storage.set_task_progress", state, Prog(progress))>>
        ELSE <<>>)
    \o <<Ev("engine.on_task_state_change", state, result)>>

\* TaskAction._force_state: _change_state, then task.update_progress(progress)
ForceStateTrace(state, progress, result) ==
    ChangeStateTrace(state, result, progress)
    \o <<Ev("task.update_progress", state, Prog(progress))>>

Returned == [kind |-> "returned", exc |-> "none"]
Raised(e) == [kind |-> "raised", exc |-> e]

\* the result TaskAction.revert passes to _change_state on a raising revert
RevertFailureResult(prior) == None

ExecuteFailureSwallowed(failure) == Returned
\* how TaskAction.execute ends after a raising body: failure.reraise()
ExecuteFailureOutcome(failure) == Raised(Reraise(failure))

NoFrame == [call |-> "none", emitted |-> 0, result |-> None, exc |-> "none",
            progressFault |-> FALSE]
NewFrame(call) == [NoFrame EXCEPT !.call = call]

-----------------------------------------------------------------------------
(* TaskAction.execute *)

\* execute on an already finished task returns at once
ExecuteSkip ==
    /\ pc = "idle"
    /\ storage.state \in ALREADY_FINISHED_STATES
    /\ frame' = NewFrame("execute")
    /\ entry' = storage
    /\ trace' = <<>>
    /\ outcome' = Returned
    /\ UNCHANGED <<storage, taskProgress, bound, pc>>

\* _force_state(RUNNING, 0.0), then _autobind binds the progress listener
ExecuteStart ==
    /\ pc = "idle"
    /\ storage.state \notin ALREADY_FINISHED_STATES
    /\ frame' = NewFrame("execute")
    /\ entry' = storage
    /\ storage' = ChangeState(storage, RUNNING, None, "0.0")
    /\ trace' = ForceStateTrace(RUNNING, "0.0", None)
    /\ taskProgress' = "0.0"
    /\ bound' = TRUE
    /\ pc' = "execute_fetch"
    /\ UNCHANGED outcome

\* kwargs = fetch_mapped_args(...); the task's execute is entered
ExecuteFetchArgs ==
    /\ pc = "execute_fetch"
    /\ trace' = Append(trace, Ev("task.execute", storage.state, None))
    /\ pc' = "execute_body"
    /\ UNCHANGED <<storage, taskProgress, bound, frame, outcome, entry>>

\* the task body calls update_progress: the bound _on_update_progress
\* persists the value
TaskUpdateProgress(p) ==
    /\ pc \in {"execute_body", "revert_body"}
    /\ frame.emitted < MaxProgressEvents
    /\ frame' = [frame EXCEPT !.emitted = @ + 1]
    /\ taskProgress' = p
    /\ storage' = IF bound THEN StorageSetTaskProgress(storage, p) ELSE storage
    /\ trace' = IF bound
                THEN Append(trace, Ev("storage.set_task_progress", storage.state, Prog(p)))
                ELSE trace
    /\ UNCHANGED <<bound, pc, outcome, entry>>

\* the task's execute returns r; leaving the with block unbinds the listener
ExecuteBodyReturn(r) ==
    /\ pc = "execute_body"
    /\ frame' = [frame EXCEPT !.result = r]
    /\ bound' = FALSE
    /\ pc' = "execute_success"
    /\ UNCHANGED <<storage, taskProgress, outcome, entry, trace>>

\* _force_state(SUCCESS, 1.0, result=result) and return
ExecuteSuccess ==
    /\ pc = "execute_success"
    /\ storage' = ChangeState(storage, SUCCESS, frame.result, "1.0")
    /\ trace' = trace \o ForceStateTrace(SUCCESS, "1.0", frame.result)
    /\ taskProgress' = "1.0"
    /\ outcome' = Returned
    /\ pc' = "idle"
    /\ UNCHANGED <<bound, frame, entry>>

\* the task's execute raises e: failure = Failure(); _change_state(FAILURE,
\* result=failure); failure.reraise(); the listener is unbound on the way out
ExecuteBodyRaise(e) ==
    /\ pc = "execute_body"
    /\ frame' = [frame EXCEPT !.exc = e]
    /\ storage' = ChangeState(storage, FAILURE, Failure(e), "None")
    /\ trace' = trace \o ChangeStateTrace(FAILURE, Failure(e), "None")
    /\ bound' = FALSE
    /\ outcome' = ExecuteFailureOutcome(Failure(e))
    /\ pc' = "idle"
    /\ UNCHANGED <<taskProgress, entry>>

-----------------------------------------------------------------------------
(* TaskAction.revert *)

\* revert on a task that never ran returns at once
RevertSkip ==
    /\ pc = "idle"
    /\ storage.state \in NEVER_RAN_STATES
    /\ frame' = NewFrame("revert")
    /\ entry' = storage
    /\ trace' = <<>>
    /\ outcome' = Returned
    /\ UNCHANGED <<storage, taskProgress, bound, pc>>

\* _force_state(REVERTING, 0.0), then _autobind binds the progress listener
RevertStart ==
    /\ pc = "idle"
    /\ storage.state \notin NEVER_RAN_STATES
    /\ frame' = NewFrame("revert")
    /\ entry' = storage
    /\ storage' = ChangeState(storage, REVERTING, None, "0.0")
    /\ trace' = ForceStateTrace(REVERTING, "0.0", None)
    /\ taskProgress' = "0.0"
    /\ bound' = TRUE
    /\ pc' = "revert_fetch"
    /\ UNCHANGED outcome

\* kwargs = fetch_mapped_args(...); result=storage.get(id); the task's revert
\* is entered with the stored result
RevertFetchArgs ==
    /\ pc = "revert_fetch"
    /\ frame' = [frame EXCEPT !.result = storage.result]
    /\ trace' = Append(trace, Ev("task.revert", storage.state, storage.result))
    /\ pc' = "revert_body"
    /\ UNCHANGED <<storage, taskProgress, bound, outcome, entry>>

\* the task's revert returns; leaving the with block unbinds the listener
RevertBodyReturn ==
    /\ pc = "revert_body"
    /\ bound' = FALSE
    /\ pc' = "revert_reverted"
    /\ UNCHANGED <<storage, taskProgress, frame, outcome, entry, trace>>

\* the task's revert raises e: _change_state(FAILURE) inside
\* save_and_reraise_exception, which raises e again
RevertBodyRaise(e) ==
    /\ pc = "revert_body"
    /\ frame' = [frame EXCEPT !.exc = e]
    /\ storage' = ChangeState(storage, FAILURE, RevertFailureResult(storage.result), "None")
    /\ trace' = trace \o ChangeStateTrace(FAILURE, RevertFailureResult(storage.result), "None")
    /\ bound' = FALSE
    /\ outcome' = Raised(e)
    /\ pc' = "idle"
    /\ UNCHANGED <<taskProgress, entry>>

\* _force_state(REVERTED, 1.0)
RevertReverted ==
    /\ pc = "revert_reverted"
    /\ storage' = ChangeState(storage, REVERTED, None, "1.0")
    /\ trace' = trace \o ForceStateTrace(REVERTED, "1.0", None)
    /\ taskProgress' = "1.0"
    /\ pc' = "revert_pending"
    /\ UNCHANGED <<bound, frame, outcome, entry>>

\* _force_state(PENDING, 0.0) and return
RevertPending ==
    /\ pc = "revert_pending"
    /\ storage' = ChangeState(storage, PENDING, None, "0.0")
    /\ trace' = trace \o ForceStateTrace(PENDING, "0.0", None)
    /\ taskProgress' = "0.0"
    /\ outcome' = Returned
    /\ pc' = "idle"
    /\ UNCHANGED <<bound, frame, entry>>

-----------------------------------------------------------------------------
(* executor.py: _execute_task and _revert_task *)

EXECUTED == "executed"
REVERTED_TAG == "reverted"
\* task_atom.REVERT_RESULT and task_atom.REVERT_FLOW_FAILURES
REVERT_RESULT == "result"
REVERT_FLOW_FAILURES == "flow_failures"

Calls == 1..MaxCalls
Tasks == {"t1", "t2"}
\* task.copy(retain_listeners=False): a distinct object with no listeners
Copies == {"t1_copy", "t2_copy"}
Copy(task) == IF task = "t1" THEN "t1_copy" ELSE "t2_copy"
\* progress_callback: "None" when the caller gives none
Callbacks == {"cb1"}
Keys == {"x", REVERT_RESULT, REVERT_FLOW_FAILURES}
ArgValues == {"a", "b"}
\* every arguments mapping over Keys
Mappings == UNION {[d -> ArgValues] : d \in SUBSET Keys}
EmptyMapping == [k \in {} |-> "a"]
\* what the hooks raise
PreError == "PreError"
PostError == "PostError"
\* what a task body run by the executor returns or raises
BodyResults == {Value("r1")}
BodyExceptions == {"E1"}

NoReturn == <<"none", None>>
Hook(name, ok) == [hook |-> name, ok |-> ok]

FreeCall == [pc |-> "free", kind |-> "-", task |-> "-", cb |-> "None",
             given |-> EmptyMapping, arguments |-> EmptyMapping,
             received |-> EmptyMapping,
             prior |-> "a", failures |-> "a",
             result |-> None, hooks |-> <<>>, bodyExc |-> "none",
             exc |-> "none", ret |-> NoReturn]

\* notifier.register_deregister on entry: registers the callback if given
Register(n, task, cb) ==
    IF cb = "None" THEN n ELSE [n EXCEPT ![task][cb] = @ + 1]

\* notifier.register_deregister on exit: removes one registration
Deregister(n, task, cb) ==
    IF cb = "None" \/ n[task][cb] = 0 THEN n ELSE [n EXCEPT ![task][cb] = @ - 1]

NotifierAtExitOnlyOnReturn(n, task, cb, exc) ==
    IF exc = "none" THEN Deregister(n, task, cb) ELSE n
\* leaving the with block of _execute_task/_revert_task, normally or with
\* exception exc in flight
NotifierAtExit(n, task, cb, exc) == Deregister(n, task, cb)

RevertArgumentsSetDefault(arguments, result, failures) ==
    [k \in DOMAIN arguments \cup {REVERT_RESULT, REVERT_FLOW_FAILURES} |->
        IF k \in DOMAIN arguments THEN arguments[k]
        ELSE IF k = REVERT_RESULT THEN result ELSE failures]
\* _revert_task: arguments = arguments.copy(); the two reserved keys are set
RevertArguments(arguments, result, failures) ==
    [k \in DOMAIN arguments \cup {REVERT_RESULT, REVERT_FLOW_FAILURES} |->
        IF k = REVERT_RESULT THEN result
        ELSE IF k = REVERT_FLOW_FAILURES THEN failures
        ELSE arguments[k]]

\* the caller's mapping object after _revert_task worked on its copy
CallerArgumentsAfter(arguments, result, failures) == arguments

\* except Exception: result = failure.Failure(), for an exception of the
\* pre hook and for one of the body
PreRaiseCaptured(e) == [result |-> Failure(e), exc |-> "none"]
BodyRaiseUncaught(e) == [result |-> None, exc |-> e]
BodyRaiseCaptured(e) == [result |-> Failure(e), exc |-> "none"]

AfterPreRaiseSkipsPost == "done"
\* where control goes when the pre hook raised: the finally clause
AfterPreRaise == "post"

PostRaiseSwallowed(e) == "none"
\* the exception in flight after the post hook raised inside finally
PostRaisePropagates(e) == e

Tag(kind) == IF kind = "execute" THEN EXECUTED ELSE REVERTED_TAG

\* SerialTaskExecutor before any submission
SerialIdle == [busy |-> FALSE, submitted |-> <<>>, futures |-> <<>>,
               completed |-> <<>>]
\* no submission to the process executor yet
ProcIdle == [task |-> "-", cb |-> "None", kind |-> "-", dispatched |-> "-",
             dispatchedCb |-> "None", atom |-> "-", queued |-> FALSE,
             notified |-> FALSE, invoked |-> {}]
\* no ParallelTaskExecutor constructed yet; pools are the worker pools that
\* exist, named by their position
ParIdle == [constructed |-> FALSE, own |-> FALSE, executor |-> NoPool,
            supplied |-> NoPool, max_workers |-> NoMaxWorkers, pc |-> "idle",
            op |-> "none", raised |-> "none", pools |-> <<>>]
\* no retry controller constructed yet
RetryIdle == [kind |-> "none", attempts |-> 0, values |-> <<>>,
              history |-> <<>>, op |-> "none", decision |-> "-",
              raised |-> FALSE, value |-> 0,
              phase |-> "-", retries |-> 0, results |-> <<>>,
              reverted |-> FALSE]
\* engine storage before any TaskAction is constructed: no name has a uuid
EngineIdle == [registry |-> [n \in Names |-> NoUuid], resumed |-> {},
               generated |-> 0, addTask |-> [n \in Names |-> 0],
               setCalls |-> <<>>, built |-> <<>>]
\* get_required_callable_args not called yet
ReflectIdle == [asked |-> FALSE, function |-> NoCallable, result |-> <<>>]

\* the task is registered in storage in state PENDING and no TaskAction call
\* was made; the executor has no call in flight
Init ==
    /\ storage = [state |-> PENDING, result |-> None, progress |-> "0.0"]
    /\ taskProgress = "0.0"
    /\ bound = FALSE
    /\ pc = "idle"
    /\ frame = NoFrame
    /\ outcome = [kind |-> "none", exc |-> "none"]
    /\ entry = [state |-> PENDING, result |-> None, progress |-> "0.0"]
    /\ trace = <<>>
    /\ calls = [c \in Calls |-> FreeCall]
    /\ notifier = [t \in Tasks \cup Copies |-> [cb \in Callbacks |-> 0]]
    /\ callerArgs = [c \in Calls |-> EmptyMapping]
    /\ serial = SerialIdle
    /\ proc = ProcIdle
    /\ par = ParIdle
    /\ retry = RetryIdle
    /\ engine = EngineIdle
    /\ reflect = ReflectIdle

\* a worker starts _execute_task(task, arguments, progress_callback): the
\* with statement registers the callback
StartExecute(c, task, args, cb) ==
    /\ calls[c].pc \in {"free", "done"}
    /\ calls' = [calls EXCEPT ![c] =
            [FreeCall EXCEPT !.pc = "pre", !.kind = "execute", !.task = task,
                             !.cb = cb, !.given = args, !.arguments = args]]
    /\ callerArgs' = [callerArgs EXCEPT ![c] = args]
    /\ notifier' = Register(notifier, task, cb)

\* a worker starts _revert_task(task, arguments, result, failures,
\* progress_callback): the arguments are copied and augmented, then the with
\* statement registers the callback
StartRevert(c, task, args, result, failures, cb) ==
    /\ calls[c].pc \in {"free", "done"}
    /\ calls' = [calls EXCEPT ![c] =
            [FreeCall EXCEPT !.pc = "pre", !.kind = "revert", !.task = task,
                             !.cb = cb, !.given = args,
                             !.prior = result, !.failures = failures,
                             !.arguments = RevertArguments(args, result, failures)]]
    /\ callerArgs' = [callerArgs EXCEPT ![c] = CallerArgumentsAfter(args, result, failures)]
    /\ notifier' = Register(notifier, task, cb)

\* task.pre_execute() / task.pre_revert() returns
PreReturn(c) ==
    /\ calls[c].pc = "pre"
    /\ calls' = [calls EXCEPT ![c].pc = "body",
                              ![c].hooks = Append(@, Hook("pre", TRUE))]
    /\ UNCHANGED <<notifier, callerArgs>>

\* task.pre_execute() / task.pre_revert() raises: caught by except Exception
PreRaise(c) ==
    /\ calls[c].pc = "pre"
    /\ calls' = [calls EXCEPT ![c].pc = AfterPreRaise,
                              ![c].hooks = Append(@, Hook("pre", FALSE)),
                              ![c].result = PreRaiseCaptured(PreError).result,
                              ![c].exc = PreRaiseCaptured(PreError).exc]
    /\ UNCHANGED <<notifier, callerArgs>>

\* result = task.execute(**arguments) / task.revert(**arguments) returns r
BodyReturn(c, r) ==
    /\ calls[c].pc = "body"
    /\ calls' = [calls EXCEPT ![c].pc = "post",
                              ![c].hooks = Append(@, Hook("body", TRUE)),
                              ![c].received = calls[c].arguments,
                              ![c].result = r]
    /\ UNCHANGED <<notifier, callerArgs>>

\* task.execute(**arguments) / task.revert(**arguments) raises e
BodyRaise(c, e) ==
    /\ calls[c].pc = "body"
    /\ calls' = [calls EXCEPT ![c].pc = "post",
                              ![c].hooks = Append(@, Hook("body", FALSE)),
                              ![c].received = calls[c].arguments,
                              ![c].bodyExc = e,
                              ![c].result = BodyRaiseCaptured(e).result,
                              ![c].exc = BodyRaiseCaptured(e).exc]
    /\ UNCHANGED <<notifier, callerArgs>>

\* the call record once the function has been left: the return value
\* (EXECUTED, result) / (REVERTED, result), or the exception let out
Finished(call, postOk, exc) ==
    [call EXCEPT !.pc = "done",
                 !.task = "-",
                 !.hooks = Append(@, Hook("post", postOk)),
                 !.exc = exc,
                 !.ret = IF exc = "none" THEN <<Tag(call.kind), call.result>>
                         ELSE NoReturn]

\* finally: task.post_execute() / task.post_revert() returns; the with block
\* is left, which deregisters the callback, and the function returns
PostReturn(c) ==
    /\ calls[c].pc = "post"
    /\ notifier' = NotifierAtExit(notifier, calls[c].task, calls[c].cb, calls[c].exc)
    /\ calls' = [calls EXCEPT ![c] = Finished(calls[c], TRUE, calls[c].exc)]
    /\ UNCHANGED callerArgs

\* finally: task.post_execute() / task.post_revert() raises; the with block
\* is left by that exception, which deregisters the callback
PostRaise(c) ==
    /\ calls[c].pc = "post"
    /\ notifier' = NotifierAtExit(notifier, calls[c].task, calls[c].cb,
                                  PostRaisePropagates(PostError))
    /\ calls' = [calls EXCEPT ![c] =
                    Finished(calls[c], FALSE, PostRaisePropagates(PostError))]
    /\ UNCHANGED callerArgs

\* the arguments the executor specification submits
PlainArgs == [k \in {"x"} |-> "a"]

NextExecutor ==
    \/ (\E c \in Calls, t \in Tasks, cb \in Callbacks \cup {"None"} :
            StartExecute(c, t, PlainArgs, cb)) /\ UNCHANGED <<taVars, restVars>>
    \/ (\E c \in Calls, t \in Tasks, cb \in Callbacks \cup {"None"} :
            StartRevert(c, t, PlainArgs, "a", "b", cb)) /\ UNCHANGED <<taVars, restVars>>
    \/ (\E c \in Calls : PreReturn(c)) /\ UNCHANGED <<taVars, restVars>>
    \/ (\E c \in Calls : PreRaise(c)) /\ UNCHANGED <<taVars, restVars>>
    \/ (\E c \in Calls, r \in BodyResults : BodyReturn(c, r)) /\ UNCHANGED <<taVars, restVars>>
    \/ (\E c \in Calls, e \in BodyExceptions : BodyRaise(c, e)) /\ UNCHANGED <<taVars, restVars>>
    \/ (\E c \in Calls : PostReturn(c)) /\ UNCHANGED <<taVars, restVars>>
    \/ (\E c \in Calls : PostRaise(c)) /\ UNCHANGED <<taVars, restVars>>

\* _execute_task/_revert_task run concurrently by the workers of a thread pool
SpecExecutor == Init /\ [][NextExecutor]_vars

\* one _revert_task run at a time, over every arguments mapping
NextRevertArgs ==
    \/ (\E t \in Tasks, args \in Mappings, r \in ArgValues, f \in ArgValues :
            StartRevert(1, t, args, r, f, "None")) /\ UNCHANGED <<taVars, restVars>>
    \/ PreReturn(1) /\ UNCHANGED <<taVars, restVars>>
    \/ PreRaise(1) /\ UNCHANGED <<taVars, restVars>>
    \/ (\E r \in BodyResults : BodyReturn(1, r)) /\ UNCHANGED <<taVars, restVars>>
    \/ (\E e \in BodyExceptions : BodyRaise(1, e)) /\ UNCHANGED <<taVars, restVars>>
    \/ PostReturn(1) /\ UNCHANGED <<taVars, restVars>>
    \/ PostRaise(1) /\ UNCHANGED <<taVars, restVars>>

SpecRevertArgs == Init /\ [][NextRevertArgs]_vars

-----------------------------------------------------------------------------
(* TaskAction alone: no executor call is in flight *)

NextAction ==
    \/ ExecuteSkip /\ UNCHANGED <<exVars, restVars>>
    \/ ExecuteStart /\ UNCHANGED <<exVars, restVars>>
    \/ ExecuteFetchArgs /\ UNCHANGED <<exVars, restVars>>
    \/ (\E p \in BodyProgress : TaskUpdateProgress(p)) /\ UNCHANGED <<exVars, restVars>>
    \/ (\E r \in Results : ExecuteBodyReturn(r)) /\ UNCHANGED <<exVars, restVars>>
    \/ ExecuteSuccess /\ UNCHANGED <<exVars, restVars>>
    \/ (\E e \in Exceptions : ExecuteBodyRaise(e)) /\ UNCHANGED <<exVars, restVars>>
    \/ RevertSkip /\ UNCHANGED <<exVars, restVars>>
    \/ RevertStart /\ UNCHANGED <<exVars, restVars>>
    \/ RevertFetchArgs /\ UNCHANGED <<exVars, restVars>>
    \/ RevertBodyReturn /\ UNCHANGED <<exVars, restVars>>
    \/ (\E e \in Exceptions : RevertBodyRaise(e)) /\ UNCHANGED <<exVars, restVars>>
    \/ RevertReverted /\ UNCHANGED <<exVars, restVars>>
    \/ RevertPending /\ UNCHANGED <<exVars, restVars>>

\* TaskAction driven by an engine whose storage never raises
SpecAction == Init /\ [][NextAction]_vars

-----------------------------------------------------------------------------
(* Storage that may fail to persist a progress update *)

\* _force_state whose storage.set_task_progress raises inside _change_state:
\* the state is already persisted, the exception leaves the call
ForceStateProgressRaise(state, result) ==
    /\ storage' = ChangeStatePersist(storage, state, result)
    /\ outcome' = Raised(StorageError)
    /\ pc' = "idle"
    /\ UNCHANGED <<taskProgress, bound>>

ExecuteStartProgressRaise ==
    /\ pc = "idle"
    /\ storage.state \notin ALREADY_FINISHED_STATES
    /\ frame' = [NewFrame("execute") EXCEPT !.progressFault = TRUE]
    /\ entry' = storage
    /\ trace' = ChangeStatePersistTrace(RUNNING, None)
    /\ ForceStateProgressRaise(RUNNING, None)

ExecuteSuccessProgressRaise ==
    /\ pc = "execute_success"
    /\ frame' = [frame EXCEPT !.progressFault = TRUE]
    /\ trace' = trace \o ChangeStatePersistTrace(SUCCESS, frame.result)
    /\ ForceStateProgressRaise(SUCCESS, frame.result)
    /\ UNCHANGED entry

RevertStartProgressRaise ==
    /\ pc = "idle"
    /\ storage.state \notin NEVER_RAN_STATES
    /\ frame' = [NewFrame("revert") EXCEPT !.progressFault = TRUE]
    /\ entry' = storage
    /\ trace' = ChangeStatePersistTrace(REVERTING, None)
    /\ ForceStateProgressRaise(REVERTING, None)

RevertRevertedProgressRaise ==
    /\ pc = "revert_reverted"
    /\ frame' = [frame EXCEPT !.progressFault = TRUE]
    /\ trace' = trace \o ChangeStatePersistTrace(REVERTED, None)
    /\ ForceStateProgressRaise(REVERTED, None)
    /\ UNCHANGED entry

RevertPendingProgressRaise ==
    /\ pc = "revert_pending"
    /\ frame' = [frame EXCEPT !.progressFault = TRUE]
    /\ trace' = trace \o ChangeStatePersistTrace(PENDING, None)
    /\ ForceStateProgressRaise(PENDING, None)
    /\ UNCHANGED entry

\* the task body calls update_progress and storage raises inside the bound
\* _on_update_progress, which logs the exception and returns
TaskUpdateProgressRaise(p) ==
    /\ pc \in {"execute_body", "revert_body"}
    /\ bound
    /\ frame.emitted < MaxProgressEvents
    /\ frame' = [frame EXCEPT !.emitted = @ + 1, !.progressFault = TRUE]
    /\ taskProgress' = p
    /\ UNCHANGED <<storage, bound, pc, outcome, entry, trace>>

NextProgressFault ==
    \/ NextAction
    \/ ExecuteStartProgressRaise /\ UNCHANGED <<exVars, restVars>>
    \/ ExecuteSuccessProgressRaise /\ UNCHANGED <<exVars, restVars>>
    \/ RevertStartProgressRaise /\ UNCHANGED <<exVars, restVars>>
    \/ RevertRevertedProgressRaise /\ UNCHANGED <<exVars, restVars>>
    \/ RevertPendingProgressRaise /\ UNCHANGED <<exVars, restVars>>
    \/ (\E p \in BodyProgress : TaskUpdateProgressRaise(p)) /\ UNCHANGED <<exVars, restVars>>

\* TaskAction driven by an engine whose storage may raise on
\* set_task_progress
SpecProgressFault == Init /\ [][NextProgressFault]_vars

-----------------------------------------------------------------------------
(* Claims about TaskAction *)

\* the states the current/last call persisted, in order
PersistedStates(tr) ==
    LET sel == SelectSeq(tr, LAMBDA ev : ev.op \in {"storage.save", "storage.set_task_state"})
    IN  [i \in 1..Len(sel) |-> sel[i].state]

CallsTo(tr, op) == Len(SelectSeq(tr, LAMBDA ev : ev.op = op))

\* C1: when the task's execute body raises during TaskAction.execute, the
\* call ends with stored state FAILURE, stored result the Failure wrapping
\* that exception, and the exception re-raised to the caller.
C1_ExecuteFailurePersisted ==
    (pc = "idle" /\ frame.call = "execute" /\ frame.exc # "none") =>
        /\ storage.state = FAILURE
        /\ storage.result = Failure(frame.exc)
        /\ outcome = Raised(frame.exc)

C1_Witness ==
    /\ pc = "idle" /\ frame.call = "execute" /\ frame.exc = "E2"
    /\ entry.state = FAILURE /\ entry.result = Failure("E1")
    /\ storage.result = Failure("E2")

\* C2: TaskAction.execute on a task whose stored state is SUCCESS changes
\* nothing in storage, calls neither the engine hook nor the task, and
\* returns; this holds for every such call.
C2_ExecuteOnSuccessNoOp ==
    (frame.call = "execute" /\ entry.state = SUCCESS) =>
        /\ pc = "idle"
        /\ storage = entry
        /\ trace = <<>>
        /\ outcome = Returned

C2_Witness ==
    /\ frame.call = "execute" /\ entry.state = SUCCESS /\ outcome = Returned
    /\ storage.result = Value("r2") /\ storage.progress = "1.0"

\* C3: TaskAction.revert on a PENDING task does nothing; on a task in
\* SUCCESS or FAILURE whose revert body does not raise, the stored state
\* goes REVERTING, REVERTED, PENDING in that order and the call ends with
\* state PENDING, progress 0.0 and the retained result reset.
C3_RevertLifecycle ==
    /\ (frame.call = "revert" /\ entry.state = PENDING) =>
            /\ pc = "idle" /\ storage = entry /\ outcome = Returned
            /\ trace = <<>>
    /\ (frame.call = "revert" /\ entry.state \in {SUCCESS, FAILURE}) =>
            /\ pc \in {"revert_fetch", "revert_body"} =>
                    /\ storage.state = REVERTING
                    /\ PersistedStates(trace) = <<REVERTING>>
            /\ pc = "revert_reverted" =>
                    /\ storage.state = REVERTING
                    /\ CallsTo(trace, "task.revert") = 1
            /\ pc = "revert_pending" =>
                    /\ storage.state = REVERTED
                    /\ PersistedStates(trace) = <<REVERTING, REVERTED>>
            /\ (pc = "idle" /\ frame.exc = "none") =>
                    /\ outcome = Returned
                    /\ PersistedStates(trace) = <<REVERTING, REVERTED, PENDING>>
                    /\ storage.state = PENDING
                    /\ storage.progress = "0.0"
                    /\ storage.result = None

C3_Witness ==
    /\ pc = "idle" /\ frame.call = "revert" /\ frame.exc = "none"
    /\ entry.state = SUCCESS /\ entry.result = Value("r1")
    /\ storage.state = PENDING /\ storage.result = None

\* C4: when the task's revert body raises during TaskAction.revert, the call
\* ends with stored state FAILURE, the stored result is the value it had
\* before the call, and the exception propagates out of revert.
C4_RevertFailureKeepsResult ==
    (pc = "idle" /\ frame.call = "revert" /\ frame.exc # "none") =>
        /\ storage.state = FAILURE
        /\ storage.result = entry.result
        /\ outcome = Raised(frame.exc)

\* C5: an exception raised by storage while persisting a progress update
\* during TaskAction.execute or revert never makes the call raise and never
\* changes the stored state the call ends in.
C5_ProgressFaultSuppressed ==
    (pc = "idle" /\ frame.progressFault) =>
        IF frame.exc # "none"
        THEN outcome = Raised(frame.exc) /\ storage.state = FAILURE
        ELSE /\ outcome = Returned
             /\ storage.state = (IF frame.call = "execute" THEN SUCCESS ELSE PENDING)

-----------------------------------------------------------------------------
(* Claims about _execute_task and _revert_task *)

Range(f) == {f[i] : i \in DOMAIN f}
PreRaised(call) == Hook("pre", FALSE) \in Range(call.hooks)
PostRaised(call) == Hook("post", FALSE) \in Range(call.hooks)
PostRuns(call) == Cardinality({i \in DOMAIN call.hooks : call.hooks[i].hook = "post"})
Running(call) == call.pc \in {"pre", "body", "post"}

\* C6 as stated: for every task whose execute (revert) body raises,
\* _execute_task (_revert_task) returns ("executed", Failure)
\* (("reverted", Failure)) instead of propagating, post_execute
\* (post_revert) having run before.
C6_BodyFailureReturned ==
    \A c \in Calls :
        (calls[c].pc = "done" /\ calls[c].bodyExc # "none") =>
            /\ calls[c].exc = "none"
            /\ calls[c].ret = <<Tag(calls[c].kind), Failure(calls[c].bodyExc)>>
            /\ PostRuns(calls[c]) = 1

\* C6 amended: the exception of a raising body is never let out of
\* _execute_task/_revert_task; the post hook has run when the function is
\* left; the function returns (tag, Failure of that exception) when the post
\* hook returns, and lets out the post hook's own exception when it raises.
C6_BodyFailureConverted ==
    \A c \in Calls :
        calls[c].bodyExc # "none" =>
            /\ calls[c].exc # calls[c].bodyExc
            /\ calls[c].pc = "done" =>
                /\ PostRuns(calls[c]) = 1
                /\ ~PostRaised(calls[c]) =>
                        /\ calls[c].exc = "none"
                        /\ calls[c].ret = <<Tag(calls[c].kind), Failure(calls[c].bodyExc)>>
                /\ PostRaised(calls[c]) =>
                        /\ calls[c].exc = PostError
                        /\ calls[c].ret = NoReturn

C6_Witness ==
    \E c, d \in Calls :
        /\ calls[c].pc = "done" /\ calls[c].bodyExc = "E1"
        /\ calls[c].ret = <<REVERTED_TAG, Failure("E1")>>
        /\ calls[d].pc = "done" /\ calls[d].bodyExc = "E1"
        /\ calls[d].ret = <<EXECUTED, Failure("E1")>>

\* C7 as stated: only an exception of the body becomes a Failure result; an
\* exception raised by the pre hook or by the post hook is not captured and
\* propagates out of _execute_task/_revert_task.
C7_HookExceptionsPropagate ==
    \A c \in Calls :
        calls[c].pc = "done" =>
            /\ (PreRaised(calls[c]) \/ PostRaised(calls[c])) =>
                    calls[c].exc # "none" /\ calls[c].ret = NoReturn
            /\ (calls[c].ret # NoReturn /\ calls[c].ret[2].kind = "Failure") =>
                    calls[c].bodyExc # "none"

\* C7 amended: an exception raised by the pre hook or by the body becomes a
\* Failure result (after a raising pre hook the body is not called); only an
\* exception raised by the post hook is not captured and propagates.
C7_OnlyPostHookPropagates ==
    \A c \in Calls :
        calls[c].pc = "done" =>
            /\ PostRaised(calls[c]) <=> calls[c].exc # "none"
            /\ PostRaised(calls[c]) =>
                    calls[c].exc = PostError /\ calls[c].ret = NoReturn
            /\ (PreRaised(calls[c]) /\ ~PostRaised(calls[c])) =>
                    /\ calls[c].ret = <<Tag(calls[c].kind), Failure(PreError)>>
                    /\ calls[c].bodyExc = "none"
                    /\ \A i \in DOMAIN calls[c].hooks : calls[c].hooks[i].hook # "body"
            /\ (calls[c].ret # NoReturn /\ calls[c].ret[2].kind = "Failure") =>
                    PreRaised(calls[c]) \/ calls[c].bodyExc # "none"

C7_Witness ==
    \E c, d \in Calls :
        /\ calls[c].pc = "done" /\ PreRaised(calls[c])
        /\ calls[c].ret = <<EXECUTED, Failure(PreError)>>
        /\ calls[d].pc = "done" /\ PostRaised(calls[d]) /\ calls[d].kind = "revert"
        /\ calls[d].exc = PostError

HooksOrdered(h) ==
    \A i \in DOMAIN h :
        /\ h[i].hook = "pre" <=> i = 1
        /\ h[i].hook = "body" => (i = 2 /\ h[1] = Hook("pre", TRUE))
        /\ h[i].hook = "post" =>
                /\ i = Len(h)
                /\ i = (IF h[1] = Hook("pre", TRUE) THEN 3 ELSE 2)

\* C8: in every run of _execute_task/_revert_task, whatever the other runs
\* do, the pre hook is called first, the body only after the pre hook
\* returned normally, and the post hook exactly once, after both, on every
\* path out of the function.
C8_HooksOrdered ==
    \A c \in Calls :
        /\ HooksOrdered(calls[c].hooks)
        /\ calls[c].pc = "body" <=> calls[c].hooks = <<Hook("pre", TRUE)>>
        /\ calls[c].pc = "done" =>
                /\ PostRuns(calls[c]) = 1
                /\ calls[c].hooks[Len(calls[c].hooks)].hook = "post"
        /\ calls[c].pc # "done" => PostRuns(calls[c]) = 0

C8_Witness ==
    \E c, d \in Calls :
        /\ calls[c].hooks = <<Hook("pre", FALSE), Hook("post", TRUE)>>
        /\ calls[c].pc = "done"
        /\ calls[d].hooks = <<Hook("pre", TRUE), Hook("body", FALSE)>>
        /\ calls[d].pc = "post"

\* C9: for any interleaving of concurrent _execute_task/_revert_task runs,
\* also on tasks sharing one notifier, a supplied progress_callback is
\* registered on the task's notifier during the whole pre/body/post sequence
\* of its run and no longer once the run has exited, by return or by
\* exception; no run removes the registration of a run still in progress.
C9_CallbackScoped ==
    \A t \in Tasks, cb \in Callbacks :
        notifier[t][cb] =
            Cardinality({c \in Calls : /\ Running(calls[c])
                                       /\ calls[c].task = t
                                       /\ calls[c].cb = cb})

C9_Witness ==
    \E c, d \in Calls :
        /\ calls[c].pc = "done" /\ calls[c].cb = "cb1" /\ calls[c].exc = PostError
        /\ Running(calls[d]) /\ calls[d].cb = "cb1" /\ calls[d].task = "t1"
        /\ notifier["t1"]["cb1"] = 1
        /\ notifier["t2"]["cb1"] = 0

\* C10: _revert_task calls the task's revert with the caller's arguments plus
\* the two reserved keys bound to the prior result and to the failures
\* mapping, whatever the caller's mapping held under those keys, and leaves
\* the caller's mapping unmodified.
C10_RevertArguments ==
    \A c \in Calls :
        calls[c].kind = "revert" =>
            /\ callerArgs[c] = calls[c].given
            /\ (\E i \in DOMAIN calls[c].hooks : calls[c].hooks[i].hook = "body") =>
                LET got == calls[c].received IN
                /\ DOMAIN got = DOMAIN calls[c].given
                                    \cup {REVERT_RESULT, REVERT_FLOW_FAILURES}
                /\ got[REVERT_RESULT] = calls[c].prior
                /\ got[REVERT_FLOW_FAILURES] = calls[c].failures
                /\ \A k \in DOMAIN calls[c].given \ {REVERT_RESULT, REVERT_FLOW_FAILURES} :
                        got[k] = calls[c].given[k]

C10_Witness ==
    \E c \in Calls :
        /\ calls[c].pc = "done" /\ calls[c].kind = "revert"
        /\ calls[c].hooks[2] = Hook("body", TRUE)
        /\ DOMAIN calls[c].given = {"x", REVERT_RESULT}
        /\ calls[c].given[REVERT_RESULT] = "a"
        /\ calls[c].prior = "b"
        /\ calls[c].received[REVERT_RESULT] = "b"
        /\ calls[c].received["x"] = calls[c].given["x"]
        /\ callerArgs[c] = calls[c].given

-----------------------------------------------------------------------------
(* SerialTaskExecutor: SynchronousExecutor.submit runs the function on the   *)
(* caller's thread and returns the completed future                          *)

SerialFutureAtomUnset(task) == "None"
\* fut.atom = task
SerialFutureAtom(task) == task

\* the future SynchronousExecutor.submit returns once the function has run,
\* tagged by execute_task / revert_task
SerialReturn(sr) ==
    [sr EXCEPT !.busy = FALSE,
               !.futures = Append(@, [done |-> TRUE,
                                      atom |-> SerialFutureAtom(sr.submitted[Len(sr.submitted)])]),
               !.completed = Append(@, Len(sr.submitted))]

\* SerialTaskExecutor.execute_task: submit(_execute_task, task, arguments,
\* progress_callback=...) starts running the function at once
SerialExecuteTask(task, cb) ==
    /\ ~serial.busy
    /\ Len(serial.submitted) < MaxSubmissions
    /\ StartExecute(1, task, PlainArgs, cb)
    /\ serial' = [serial EXCEPT !.busy = TRUE, !.submitted = Append(@, task)]

\* SerialTaskExecutor.revert_task
SerialRevertTask(task, cb) ==
    /\ ~serial.busy
    /\ Len(serial.submitted) < MaxSubmissions
    /\ StartRevert(1, task, PlainArgs, "a", "b", cb)
    /\ serial' = [serial EXCEPT !.busy = TRUE, !.submitted = Append(@, task)]

\* the function returns: the future holds its result
SerialFinishReturn ==
    /\ serial.busy
    /\ PostReturn(1)
    /\ serial' = SerialReturn(serial)

\* the function raises (post hook): the future holds the exception
SerialFinishRaise ==
    /\ serial.busy
    /\ PostRaise(1)
    /\ serial' = SerialReturn(serial)

serialRest == <<taVars, proc, par, retry, engine, reflect>>

NextSerial ==
    \/ (\E t \in Tasks, cb \in Callbacks \cup {"None"} : SerialExecuteTask(t, cb))
            /\ UNCHANGED serialRest
    \/ (\E t \in Tasks, cb \in Callbacks \cup {"None"} : SerialRevertTask(t, cb))
            /\ UNCHANGED serialRest
    \/ PreReturn(1) /\ UNCHANGED <<serial, serialRest>>
    \/ PreRaise(1) /\ UNCHANGED <<serial, serialRest>>
    \/ (\E r \in BodyResults : BodyReturn(1, r)) /\ UNCHANGED <<serial, serialRest>>
    \/ (\E e \in BodyExceptions : BodyRaise(1, e)) /\ UNCHANGED <<serial, serialRest>>
    \/ SerialFinishReturn /\ UNCHANGED serialRest
    \/ SerialFinishRaise /\ UNCHANGED serialRest

SpecSerial == Init /\ [][NextSerial]_vars

\* C11: with the Serial executor the task bodies run one at a time and
\* complete in submission order, every returned future is already completed
\* when the submitting call returns, and every future's atom is the task
\* that was submitted.
C11_SerialInOrder ==
    /\ Len(serial.futures) = Len(serial.completed)
    /\ Len(serial.submitted) = Len(serial.completed) + (IF serial.busy THEN 1 ELSE 0)
    /\ \A i \in DOMAIN serial.completed : serial.completed[i] = i
    /\ \A i \in DOMAIN serial.futures :
            /\ serial.futures[i].done
            /\ serial.futures[i].atom = serial.submitted[i]
    /\ Cardinality({c \in Calls : Running(calls[c])}) = (IF serial.busy THEN 1 ELSE 0)

C11_Witness ==
    /\ Len(serial.futures) = 2
    /\ serial.submitted = <<"t2", "t1", "t2">>
    /\ serial.busy
    /\ calls[1].pc = "body"

-----------------------------------------------------------------------------
(* ParallelProcessTaskExecutor._submit_task, with a pool of one worker       *)
(* process that runs _execute_task/_revert_task in call slot 1               *)

\* task.copy(retain_listeners=...): the notifier of the clone
CopyNotifier(n, task, retain_listeners) ==
    [n EXCEPT ![Copy(task)] = IF retain_listeners THEN n[task]
                              ELSE [cb \in Callbacks |-> 0]]

ProcessCallbackKept(cb) == cb
\* kwargs.pop('progress_callback', None): what is left for the function
ProcessCallback(cb) == "None"

\* clone = task.copy(retain_listeners=False)
ProcessRetainListeners == FALSE
ProcessClone(task) == Copy(task)

\* fut.atom = task, after the base _submit_task set it to the clone
ProcessFutureAtom(task, clone) == task

\* the caller registers an in-process progress listener on its task
RegisterListener(task, cb) ==
    /\ notifier[task][cb] = 0
    /\ notifier' = Register(notifier, task, cb)
    /\ UNCHANGED <<calls, callerArgs, proc>>

\* execute_task / revert_task of the process executor: _submit_task hands
\* the function, the clone and the remaining keyword arguments to the pool
ProcessSubmitTask(kind, task, cb) ==
    /\ ~proc.queued
    /\ calls[1].pc \in {"free", "done"}
    /\ notifier' = CopyNotifier(notifier, task, ProcessRetainListeners)
    /\ proc' = [proc EXCEPT !.task = task, !.cb = cb, !.kind = kind,
                            !.dispatched = ProcessClone(task),
                            !.dispatchedCb = ProcessCallback(cb),
                            !.atom = ProcessFutureAtom(task, ProcessClone(task)),
                            !.queued = TRUE, !.notified = FALSE]
    /\ UNCHANGED <<calls, callerArgs>>

\* the worker process takes the submission and starts the function
ProcessWorkerStart ==
    /\ proc.queued
    /\ IF proc.kind = "execute"
       THEN StartExecute(1, proc.dispatched, PlainArgs, proc.dispatchedCb)
       ELSE StartRevert(1, proc.dispatched, PlainArgs, "a", "b", proc.dispatchedCb)
    /\ proc' = [proc EXCEPT !.queued = FALSE]

\* the body calls update_progress: the notifier of the object it runs on
\* invokes every listener registered on it
ProcessBodyProgress ==
    /\ calls[1].pc = "body"
    /\ proc' = [proc EXCEPT !.notified = TRUE,
                            !.invoked = @ \cup {cb \in Callbacks :
                                            notifier[calls[1].task][cb] > 0}]
    /\ UNCHANGED <<calls, callerArgs, notifier>>

processRest == <<taVars, serial, par, retry, engine, reflect>>

NextProcess ==
    \/ (\E t \in Tasks, cb \in Callbacks : RegisterListener(t, cb))
            /\ UNCHANGED processRest
    \/ (\E k \in {"execute", "revert"}, t \in Tasks, cb \in Callbacks \cup {"None"} :
            ProcessSubmitTask(k, t, cb)) /\ UNCHANGED processRest
    \/ ProcessWorkerStart /\ UNCHANGED processRest
    \/ ProcessBodyProgress /\ UNCHANGED processRest
    \/ PreReturn(1) /\ UNCHANGED <<proc, processRest>>
    \/ PreRaise(1) /\ UNCHANGED <<proc, processRest>>
    \/ (\E r \in BodyResults : BodyReturn(1, r)) /\ UNCHANGED <<proc, processRest>>
    \/ (\E e \in BodyExceptions : BodyRaise(1, e)) /\ UNCHANGED <<proc, processRest>>
    \/ PostReturn(1) /\ UNCHANGED <<proc, processRest>>
    \/ PostRaise(1) /\ UNCHANGED <<proc, processRest>>

SpecProcess == Init /\ [][NextProcess]_vars

\* C12: with the Process executor the object handed to the worker pool is a
\* clone of the task with no listeners (never the original task), the
\* future's atom is the original task, and a supplied progress_callback is
\* dropped before dispatch, so no callback is ever invoked.
C12_ProcessCloneDispatched ==
    proc.task # "-" =>
        /\ proc.dispatched = Copy(proc.task)
        /\ proc.dispatched \notin Tasks
        /\ \A cb \in Callbacks : notifier[proc.dispatched][cb] = 0
        /\ proc.atom = proc.task
        /\ proc.dispatchedCb = "None"
        /\ proc.invoked = {}
        /\ Running(calls[1]) => /\ calls[1].task = proc.dispatched
                                /\ calls[1].cb = "None"

C12_Witness ==
    /\ proc.task = "t1"
    /\ proc.cb = "cb1"
    /\ notifier["t1"]["cb1"] = 1
    /\ proc.notified
    /\ calls[1].pc = "post"
    /\ calls[1].task = "t1_copy"

-----------------------------------------------------------------------------
(* ParallelTaskExecutor life cycle: __init__, start, stop, submissions;      *)
(* TaskExecutor.start/stop as inherited by SerialTaskExecutor                *)

\* self._own_executor = executor is None
OwnExecutor(executor) == executor = NoPool

\* a worker pool as futures.ThreadPoolExecutor / ProcessPoolExecutor makes it
NewPool(creator, max_workers) ==
    [state |-> "live", creator |-> creator, inflight |-> 0,
     max_workers |-> max_workers]

\* threading_utils.get_optimal_thread_count(): a count the host decides
OptimalThreadCount == MaxWorkers + 1

\* start: max_workers = self._max_workers if it is not None, else
\* threading_utils.get_optimal_thread_count()
StartMaxWorkers(max_workers) ==
    IF max_workers # NoMaxWorkers THEN max_workers ELSE OptimalThreadCount

ShutdownNoWait == FALSE
\* self._executor.shutdown(wait=True)
ShutdownWait == TRUE

\* ParallelTaskExecutor(executor=..., max_workers=...)
ParConstruct(supplied, max_workers) ==
    /\ ~par.constructed
    /\ LET executor == IF supplied THEN 1 ELSE NoPool IN
       par' = [ParIdle EXCEPT
                 !.constructed = TRUE,
                 !.executor = executor,
                 !.supplied = executor,
                 !.max_workers = max_workers,
                 !.own = OwnExecutor(executor),
                 !.pools = IF supplied THEN <<NewPool("external", NoMaxWorkers)>>
                           ELSE <<>>]

\* ParallelTaskExecutor.start
ParStart ==
    /\ par.constructed
    /\ par.pc = "idle"
    /\ par.own => Len(par.pools) < MaxPools
    /\ par' = IF par.own
              THEN [par EXCEPT
                      !.op = "start", !.raised = "none",
                      !.pools = Append(@, NewPool("self", StartMaxWorkers(par.max_workers))),
                      !.executor = Len(par.pools) + 1]
              ELSE [par EXCEPT !.op = "start", !.raised = "none"]

\* ParallelTaskExecutor.stop up to self._executor.shutdown(wait=True): a
\* borrowed pool is left alone; on None the attribute lookup raises; else
\* the pool stops accepting work and the call waits
ParStop ==
    /\ par.constructed
    /\ par.pc = "idle"
    /\ par' = IF ~par.own
              THEN [par EXCEPT !.op = "stop", !.raised = "none"]
              ELSE IF par.executor = NoPool
              THEN [par EXCEPT !.op = "stop", !.raised = "AttributeError"]
              ELSE [par EXCEPT !.op = "stop", !.raised = "none",
                               !.pc = "shutdown",
                               !.pools[par.executor].state = "shutdown"]

\* shutdown(wait=True) returns once the pool's work has drained, then
\* self._executor = None
ParStopReturn ==
    /\ par.pc = "shutdown"
    /\ ShutdownWait => par.pools[par.executor].inflight = 0
    /\ par' = [par EXCEPT !.pc = "idle", !.executor = NoPool]

\* ParallelTaskExecutor._submit_task: self._executor.submit(...)
ParSubmit ==
    /\ par.constructed
    /\ par.pc = "idle"
    /\ IF par.executor = NoPool
       THEN par' = [par EXCEPT !.op = "submit", !.raised = "AttributeError"]
       ELSE IF par.pools[par.executor].state = "shutdown"
       THEN par' = [par EXCEPT !.op = "submit", !.raised = "RuntimeError"]
       ELSE /\ par.pools[par.executor].inflight < MaxInflight
            /\ par' = [par EXCEPT !.op = "submit", !.raised = "none",
                                  !.pools[par.executor].inflight = @ + 1]

\* a worker of pool p finishes one piece of submitted work
ParWorkerDone(p) ==
    /\ par.pools[p].inflight > 0
    /\ par' = [par EXCEPT !.pools[p].inflight = @ - 1]

\* TaskExecutor.start as SerialTaskExecutor inherits it: pass
SerialStart == serial' = serial
\* TaskExecutor.stop as SerialTaskExecutor inherits it: pass
SerialStop == serial' = serial

parRest == <<taVars, exVars, proc, retry, engine, reflect>>

NextParallel ==
    \/ (\E supplied \in BOOLEAN, mw \in {NoMaxWorkers} \cup (1..MaxWorkers) :
            ParConstruct(supplied, mw)) /\ UNCHANGED <<serial, parRest>>
    \/ ParStart /\ UNCHANGED <<serial, parRest>>
    \/ ParStop /\ UNCHANGED <<serial, parRest>>
    \/ ParStopReturn /\ UNCHANGED <<serial, parRest>>
    \/ ParSubmit /\ UNCHANGED <<serial, parRest>>
    \/ (\E p \in DOMAIN par.pools : ParWorkerDone(p)) /\ UNCHANGED <<serial, parRest>>
    \/ SerialStart /\ UNCHANGED <<par, parRest>>
    \/ SerialStop /\ UNCHANGED <<par, parRest>>

SpecParallel == Init /\ [][NextParallel]_vars

\* C13: on a Parallel executor stop() completes without error in every
\* life-cycle state (never started, already stopped) and leaves the pool
\* reference of a self-created pool empty.
C13_StopAlwaysSafe ==
    (par.op = "stop" /\ par.pc = "idle") =>
        /\ par.raised = "none"
        /\ par.own => par.executor = NoPool

\* C14: a pool supplied at construction is never shut down and never
\* replaced by the executor; only self-created pools are shut down, and
\* once stop() has returned the pool it shut down has no work in flight.
C14_BorrowedPoolKept ==
    /\ (par.constructed /\ ~par.own) =>
            /\ par.supplied # NoPool
            /\ par.executor = par.supplied
            /\ Len(par.pools) = 1
            /\ par.pools[par.supplied].state = "live"
    /\ \A p \in DOMAIN par.pools :
            par.pools[p].state = "shutdown" =>
                /\ par.pools[p].creator = "self"
                /\ par.own
                /\ (par.pc = "shutdown" /\ par.executor = p)
                        \/ par.pools[p].inflight = 0

C14_Witness ==
    /\ par.constructed /\ ~par.own
    /\ par.op = "stop"
    /\ par.pools[par.supplied].inflight = 1

\* C15: start() is idempotent: called while a self-created pool exists it
\* keeps that pool and creates no other; on the Serial executor start() and
\* stop() change nothing.
C15_StartIdempotent ==
    [][/\ (ParStart /\ par.own /\ par.executor # NoPool) =>
              (par'.executor = par.executor /\ par'.pools = par.pools)
       /\ (SerialStart \/ SerialStop) => serial' = serial]_vars

-----------------------------------------------------------------------------
(* Retry controllers: Times, ForEach, ParameterizedForEach                   *)

RETRY == "RETRY"
REVERT == "REVERT"
REVERT_ALL == "REVERT_ALL"

Items == 1..MaxItem
SeqsUpTo(S, n) == {<<>>} \cup UNION {[1..k -> S] : k \in 1..n}
\* candidate sequences
ValueSeqs == SeqsUpTo(Items, MaxValues)
\* histories: sequences of (result, failures) pairs
Histories == SeqsUpTo(Items \X {"failures"}, MaxHistory)

TimesOnFailureInclusive(attempts, history) ==
    IF Len(history) <= attempts THEN RETRY ELSE REVERT
\* Times.on_failure
TimesOnFailure(attempts, history) ==
    IF Len(history) < attempts THEN RETRY ELSE REVERT

\* Times.execute
TimesExecute(history) == Len(history) + 1

\* items = (item for item, _failures in history)
HistoryItems(history) == [i \in DOMAIN history |-> history[i][1]]

\* list.remove(item): the sequence without its first occurrence of item, or
\* unchanged if item does not occur
RECURSIVE RemoveFirst(_, _)
RemoveFirst(seq, item) ==
    IF seq = <<>> THEN <<>>
    ELSE IF Head(seq) = item THEN Tail(seq)
    ELSE <<Head(seq)>> \o RemoveFirst(Tail(seq), item)

\* misc.sequence_minus(seq1, seq2): seq1 with one occurrence removed for
\* each element of seq2, in order
RECURSIVE SequenceMinus(_, _)
SequenceMinus(seq1, seq2) ==
    IF seq2 = <<>> THEN seq1
    ELSE SequenceMinus(RemoveFirst(seq1, Head(seq2)), Tail(seq2))

\* what a call comes back with: a value, or exc.NotFound raised
ReturnValue(v) == [raised |-> FALSE, value |-> v]
NotFound == [raised |-> TRUE, value |-> 0]

GetNextValueIgnoringHistory(values, history) ==
    IF values = <<>> THEN NotFound ELSE ReturnValue(values[1])
\* ForEachBase._get_next_value
GetNextValue(values, history) ==
    LET remaining == SequenceMinus(values, HistoryItems(history)) IN
    IF remaining = <<>> THEN NotFound ELSE ReturnValue(remaining[1])

OnFailureBaseAlwaysRetry(values, history) == RETRY
\* ForEachBase._on_failure
OnFailureBase(values, history) ==
    IF GetNextValue(values, history).raised THEN REVERT ELSE RETRY

\* a controller of this kind is constructed and has not been called yet
Awaiting(kind) == retry.kind = kind /\ retry.op = "none"

\* Times(attempts=n)
TimesConstruct(n) ==
    /\ retry.kind = "none"
    /\ retry' = [RetryIdle EXCEPT !.kind = "Times", !.attempts = n]

\* ForEach(values)
ForEachConstruct(values) ==
    /\ retry.kind = "none"
    /\ retry' = [RetryIdle EXCEPT !.kind = "ForEach", !.values = values]

\* ParameterizedForEach()
ParameterizedForEachConstruct ==
    /\ retry.kind = "none"
    /\ retry' = [RetryIdle EXCEPT !.kind = "ParameterizedForEach"]

\* Times.on_failure(history)
TimesOnFailureCall(history) ==
    /\ Awaiting("Times")
    /\ retry' = [retry EXCEPT !.op = "on_failure", !.history = history,
                              !.decision = TimesOnFailure(retry.attempts, history)]

\* Times.execute(history)
TimesExecuteCall(history) ==
    /\ Awaiting("Times")
    /\ retry' = [retry EXCEPT !.op = "execute", !.history = history,
                              !.value = TimesExecute(history)]

\* ForEach.on_failure(history)
ForEachOnFailureCall(history) ==
    /\ Awaiting("ForEach")
    /\ retry' = [retry EXCEPT !.op = "on_failure", !.history = history,
                              !.decision = OnFailureBase(retry.values, history)]

\* ForEach.execute(history)
ForEachExecuteCall(history) ==
    /\ Awaiting("ForEach")
    /\ LET out == GetNextValue(retry.values, history) IN
       retry' = [retry EXCEPT !.op = "execute", !.history = history,
                              !.raised = out.raised, !.value = out.value]

\* ParameterizedForEach.on_failure(values, history)
ParameterizedForEachOnFailureCall(values, history) ==
    /\ Awaiting("ParameterizedForEach")
    /\ retry' = [retry EXCEPT !.op = "on_failure", !.values = values,
                              !.history = history,
                              !.decision = OnFailureBase(values, history)]

\* ParameterizedForEach.execute(values, history)
ParameterizedForEachExecuteCall(values, history) ==
    /\ Awaiting("ParameterizedForEach")
    /\ LET out == GetNextValue(values, history) IN
       retry' = [retry EXCEPT !.op = "execute", !.values = values,
                              !.history = history,
                              !.raised = out.raised, !.value = out.value]

retryRest == <<taVars, exVars, serial, proc, par, engine, reflect>>

NextRetry ==
    \/ (\E n \in 0..MaxAttempts : TimesConstruct(n)) /\ UNCHANGED retryRest
    \/ retry.kind = "none"
            /\ (\E values \in ValueSeqs : ForEachConstruct(values))
            /\ UNCHANGED retryRest
    \/ ParameterizedForEachConstruct /\ UNCHANGED retryRest
    \/ Awaiting("Times")
            /\ (\E h \in Histories : TimesOnFailureCall(h))
            /\ UNCHANGED retryRest
    \/ Awaiting("Times")
            /\ (\E h \in Histories : TimesExecuteCall(h))
            /\ UNCHANGED retryRest
    \/ Awaiting("ForEach")
            /\ (\E h \in Histories : ForEachOnFailureCall(h))
            /\ UNCHANGED retryRest
    \/ Awaiting("ForEach")
            /\ (\E h \in Histories : ForEachExecuteCall(h))
            /\ UNCHANGED retryRest
    \/ Awaiting("ParameterizedForEach")
            /\ (\E values \in ValueSeqs, h \in Histories :
                    ParameterizedForEachOnFailureCall(values, h))
            /\ UNCHANGED retryRest
    \/ Awaiting("ParameterizedForEach")
            /\ (\E values \in ValueSeqs, h \in Histories :
                    ParameterizedForEachExecuteCall(values, h))
            /\ UNCHANGED retryRest

SpecRetry == Init /\ [][NextRetry]_vars

\* C16: Times(attempts=n).on_failure(history) returns RETRY exactly when
\* len(history) < n and REVERT otherwise, never REVERT_ALL, and
\* Times.execute(history) returns len(history) + 1.
C16_TimesDecision ==
    retry.kind = "Times" =>
        /\ retry.op = "on_failure" =>
                /\ retry.decision \in {RETRY, REVERT}
                /\ retry.decision = RETRY <=> Len(retry.history) < retry.attempts
        /\ retry.op = "execute" =>
                /\ ~retry.raised
                /\ retry.value = Len(retry.history) + 1

C16_Witness ==
    /\ retry.kind = "Times" /\ retry.op = "on_failure"
    /\ retry.attempts = 3 /\ Len(retry.history) = 3
    /\ retry.decision = REVERT

\* occurrences of x in seq
Count(seq, x) == Cardinality({i \in DOMAIN seq : seq[i] = x})
\* positions of values that survive when, for each history item occurring
\* in values, one occurrence (the earliest still present) is removed
Surviving(values, history) ==
    {i \in DOMAIN values :
        Cardinality({j \in 1..i : values[j] = values[i]})
            > Count(HistoryItems(history), values[i])}

\* C17: for ForEach and ParameterizedForEach, with remaining = the candidate
\* sequence with one occurrence removed for each history item that occurs
\* in it, order otherwise preserved: on_failure returns RETRY when
\* remaining is non-empty and REVERT when it is empty, and execute returns
\* the first element of remaining.
C17_ForEachRemaining ==
    retry.kind \in {"ForEach", "ParameterizedForEach"} =>
        LET left == Surviving(retry.values, retry.history) IN
        /\ retry.op = "on_failure" =>
                retry.decision = (IF left # {} THEN RETRY ELSE REVERT)
        /\ (retry.op = "execute" /\ left # {}) =>
                /\ ~retry.raised
                /\ retry.value = retry.values[CHOOSE i \in left : \A j \in left : i <= j]

C17_Witness ==
    /\ retry.kind = "ForEach" /\ retry.op = "execute"
    /\ retry.values = <<1, 2, 1>>
    /\ HistoryItems(retry.history) = <<2, 1>>
    /\ retry.value = 1

-----------------------------------------------------------------------------
(* TaskAction.__init__ against the engine's storage                          *)

LookupNeverFound(registry, name) == FALSE
\* engine.storage.get_uuid_by_name(name) returns (TRUE) or raises
\* exceptions.NotFound (FALSE)
LookupFound(registry, name) == registry[name] # NoUuid

\* uuidutils.generate_uuid(): a uuid not handed out before
GenerateUuid(e) == e.generated + 1

\* an earlier run left the task in the storage this run resumes from
StorageResume(name) ==
    /\ engine.built = <<>>
    /\ engine.registry[name] = NoUuid
    /\ engine' = [engine EXCEPT !.registry[name] = GenerateUuid(engine),
                                !.generated = @ + 1,
                                !.resumed = @ \cup {name}]

\* TaskAction(task, engine) for a task object with this name and save_as
TaskActionInit(name, save_as) ==
    /\ Len(engine.built) < MaxConstructions
    /\ LET found == LookupFound(engine.registry, name)
           id == IF found THEN engine.registry[name] ELSE GenerateUuid(engine)
       IN engine' = [engine EXCEPT
               !.generated = IF found THEN @ ELSE @ + 1,
               !.registry[name] = IF found THEN @ ELSE id,
               !.addTask[name] = IF found THEN @ ELSE @ + 1,
               !.setCalls = Append(@, <<id, save_as>>),
               !.built = Append(@, [name |-> name, uuid |-> id,
                                    result_mapping |-> save_as,
                                    generated |-> ~found])]

engineRest == <<taVars, exVars, serial, proc, par, retry, reflect>>

NextConstruct ==
    \/ (\E n \in Names : StorageResume(n)) /\ UNCHANGED engineRest
    \/ (\E n \in Names, mp \in ResultMappings : TaskActionInit(n, mp))
            /\ UNCHANGED engineRest

SpecConstruct == Init /\ [][NextConstruct]_vars

\* C18: constructing TaskAction is idempotent per task name: a name is
\* registered with storage (add_task) at most once, every TaskAction built
\* for a name has the uuid of the first, a uuid is generated only when the
\* lookup finds none, and the result mapping is registered under that uuid
\* on every construction.
C18_InitIdempotent ==
    LET built == engine.built IN
    /\ \A n \in Names : engine.addTask[n] <= 1
    /\ \A n \in Names : engine.addTask[n] = 1 <=>
            (n \notin engine.resumed /\ \E i \in DOMAIN built : built[i].name = n)
    /\ \A i, j \in DOMAIN built :
            built[i].name = built[j].name => built[i].uuid = built[j].uuid
    /\ \A i \in DOMAIN built :
            /\ built[i].uuid # NoUuid
            /\ built[i].uuid = engine.registry[built[i].name]
            /\ built[i].generated <=>
                    /\ built[i].name \notin engine.resumed
                    /\ \A j \in 1..(i - 1) : built[j].name # built[i].name
    /\ Len(engine.setCalls) = Len(built)
    /\ \A i \in DOMAIN built :
            engine.setCalls[i] = <<built[i].uuid, built[i].result_mapping>>

C18_Witness ==
    /\ Len(engine.built) = 3
    /\ engine.built[1].name = "n1" /\ engine.built[1].generated
    /\ engine.built[2].name = "n2" /\ ~engine.built[2].generated
    /\ engine.built[3].name = "n1" /\ ~engine.built[3].generated
    /\ engine.built[1].result_mapping # engine.built[3].result_mapping

-----------------------------------------------------------------------------
(* reflection: is_bound_method, _get_arg_spec, get_required_callable_args    *)

\* inspect.ismethod(method)
InspectIsMethod(method) == method.kind \in {"bound_method", "unbound_method"}

\* getattr(method, 'im_self', None): the instance a method is bound to
ImSelf(method) == IF method.kind = "bound_method" THEN "instance" ELSE "None"

IsBoundMethodAnyMethod(method) == InspectIsMethod(method)
\* is_bound_method
IsBoundMethod(method) ==
    IF ~InspectIsMethod(method) THEN FALSE
    ELSE IF ImSelf(method) # "None" THEN TRUE
    ELSE FALSE

\* function.__call__ of a callable object: a method bound to that object
CallAttr(function) ==
    [kind |-> "bound_method", sig |-> function.sig, wrapped |-> NoWrapped]

\* getattr(function, '__wrapped__', function)
Wrapped(function) ==
    IF function.wrapped.present THEN function.wrapped.sig ELSE function.sig

\* _get_arg_spec: (inspect.getargspec(function), bound)
GetArgSpec(function) ==
    IF function.kind = "class"
    THEN [argspec |-> function.sig, bound |-> TRUE]
    ELSE IF function.kind \in {"function", "bound_method", "unbound_method"}
    THEN [argspec |-> Wrapped(function), bound |-> IsBoundMethod(function)]
    ELSE [argspec |-> CallAttr(function).sig,
          bound |-> IsBoundMethod(CallAttr(function))]

\* seq[:-n] for n >= 1
DropLast(seq, n) == SubSeq(seq, 1, IF Len(seq) > n THEN Len(seq) - n ELSE 0)
\* seq[1:]
DropFirst(seq) == IF seq = <<>> THEN <<>> ELSE Tail(seq)

\* get_required_callable_args
GetRequiredCallableArgs(function) ==
    LET spec == GetArgSpec(function)
        f_args == IF spec.argspec.ndefaults # 0
                  THEN DropLast(spec.argspec.args, spec.argspec.ndefaults)
                  ELSE spec.argspec.args
    IN IF spec.bound THEN DropFirst(f_args) ELSE f_args

\* a caller asks for the required arguments of a callable
AskRequiredArgs(function) ==
    /\ ~reflect.asked
    /\ reflect' = [asked |-> TRUE, function |-> function,
                   result |-> GetRequiredCallableArgs(function)]

reflectRest == <<taVars, exVars, serial, proc, par, retry, engine>>

NextReflect ==
    (\E f \in Callables : AskRequiredArgs(f)) /\ UNCHANGED reflectRest

SpecReflect == Init /\ [][NextReflect]_vars

\* the signature the callable was declared with
Declared(function) ==
    IF function.wrapped.present THEN function.wrapped.sig ELSE function.sig

\* C19: get_required_callable_args returns, in declaration order, exactly
\* the positional parameter names that have no default; for a method bound
\* to an instance (also the call operator of a callable object) and for a
\* class the leading instance-binding parameter is excluded as well.
C19_RequiredArgs ==
    reflect.asked =>
        LET f == reflect.function
            sig == Declared(f)
            lo == IF f.kind \in {"bound_method", "class", "callable_object"}
                  THEN 2 ELSE 1
            hi == Len(sig.args) - sig.ndefaults
        IN /\ Len(reflect.result) = (IF hi >= lo THEN hi - lo + 1 ELSE 0)
           /\ \A k \in DOMAIN reflect.result :
                    reflect.result[k] = sig.args[lo + k - 1]

C19_Witness ==
    /\ reflect.asked
    /\ reflect.function.kind = "bound_method"
    /\ ~reflect.function.wrapped.present
    /\ reflect.function.sig = [args |-> <<"p", "a", "b">>, ndefaults |-> 1]
    /\ reflect.result = <<"a">>

-----------------------------------------------------------------------------
(* Life cycle of the stored task state under TaskAction.execute / revert     *)

\* C20: every change of the stored state follows PENDING -> RUNNING ->
\* {SUCCESS | FAILURE} and REVERTING -> REVERTED -> PENDING: RUNNING is
\* entered only from PENDING, SUCCESS and FAILURE only from RUNNING,
\* REVERTED only from REVERTING, PENDING only from REVERTED.
C20_LifecycleOrder ==
    [][storage'.state # storage.state =>
        /\ storage'.state = RUNNING => storage.state = PENDING
        /\ storage'.state \in {SUCCESS, FAILURE} => storage.state = RUNNING
        /\ storage'.state = REVERTED => storage.state = REVERTING
        /\ storage'.state = PENDING => storage.state = REVERTED]_vars

\* C20 (amended): RUNNING is entered only from PENDING or FAILURE, SUCCESS
\* only from RUNNING, FAILURE only from RUNNING or REVERTING, REVERTING only
\* from SUCCESS or FAILURE, REVERTED only from REVERTING, PENDING only from
\* REVERTED.
C20_LifecycleTransitions ==
    [][storage'.state # storage.state =>
        /\ storage'.state = RUNNING => storage.state \in {PENDING, FAILURE}
        /\ storage'.state = SUCCESS => storage.state = RUNNING
        /\ storage'.state = FAILURE => storage.state \in {RUNNING, REVERTING}
        /\ storage'.state = REVERTING => storage.state \in {SUCCESS, FAILURE}
        /\ storage'.state = REVERTED => storage.state = REVERTING
        /\ storage'.state = PENDING => storage.state = REVERTED]_vars

\* execute has just forced RUNNING on a task a raising revert left in FAILURE
C20_Witness ==
    /\ pc = "execute_fetch"
    /\ storage.state = RUNNING
    /\ entry.state = FAILURE
    /\ entry.result = None

-----------------------------------------------------------------------------
(* Order of the calls TaskAction makes for one state change                  *)

IsPersist(ev) == ev.op \in {"storage.save", "storage.set_task_state"}
IsHook(ev) == ev.op = "engine.on_task_state_change"
IsPush(ev) == ev.op = "task.update_progress"

\* the persist event at j is as the state asks: storage.save with the result
\* for SUCCESS and FAILURE, the state marker alone otherwise, and a storage
\* reset right before it exactly when the state is PENDING
PersistAsAsked(tr, j, state, result) ==
    /\ tr[j].state = state
    /\ IF state \in {SUCCESS, FAILURE}
       THEN tr[j].op = "storage.save" /\ tr[j].val = result
       ELSE tr[j].op = "storage.set_task_state"
    /\ (state = PENDING) <=> (j > 1 /\ tr[j - 1].op = "storage.reset")

\* the hook at i follows a persist event of its state, with only the
\* persisting of the progress value in between, and each persist event has
\* one hook
HookAfterPersist(tr, i) ==
    \E j \in 1..(i - 1) :
        /\ IsPersist(tr[j])
        /\ PersistAsAsked(tr, j, tr[i].state, tr[i].val)
        /\ \A k \in (j + 1)..(i - 1) :
                tr[k].op = "storage.set_task_progress" /\ tr[k].state = tr[i].state

HookOncePerPersist(tr) ==
    /\ CallsTo(tr, "engine.on_task_state_change")
            = CallsTo(tr, "storage.save") + CallsTo(tr, "storage.set_task_state")
    /\ \A i \in DOMAIN tr : IsPush(tr[i]) =>
            i > 1 /\ IsHook(tr[i - 1]) /\ tr[i - 1].state = tr[i].state

\* the progress value is pushed to the task right after the hook at i
PushFollows(tr, i) ==
    i < Len(tr) /\ IsPush(tr[i + 1]) /\ tr[i + 1].state = tr[i].state

\* C21: every state change is performed in the order persist to storage
\* (reset first for PENDING; state with result for SUCCESS and FAILURE, the
\* state marker alone otherwise), then engine.on_task_state_change once with
\* that state, then the progress value pushed to the task; the hook is never
\* invoked for a state not already persisted.
C21_PersistHookPush ==
    /\ HookOncePerPersist(trace)
    /\ \A i \in DOMAIN trace : IsHook(trace[i]) =>
            /\ HookAfterPersist(trace, i)
            /\ PushFollows(trace, i)

\* C21 (amended): as C21, but the progress value is pushed to the task for
\* every state except FAILURE, for which no progress is persisted or pushed.
C21_PersistHookThenPush ==
    /\ HookOncePerPersist(trace)
    /\ \A i \in DOMAIN trace : IsHook(trace[i]) =>
            /\ HookAfterPersist(trace, i)
            /\ IF trace[i].state = FAILURE
               THEN /\ ~PushFollows(trace, i)
                    /\ IsPersist(trace[i - 1])
               ELSE /\ PushFollows(trace, i)
                    /\ trace[i - 1].op = "storage.set_task_progress"
                    /\ trace[i - 1].val = trace[i + 1].val

\* a revert that ran to the end: REVERTING, REVERTED and PENDING each
\* persisted, announced and pushed, the reset before PENDING
C21_Witness ==
    /\ pc = "idle" /\ frame.call = "revert" /\ frame.exc = "none"
    /\ PersistedStates(trace) = <<REVERTING, REVERTED, PENDING>>
    /\ CallsTo(trace, "storage.reset") = 1
    /\ CallsTo(trace, "task.update_progress") = 3

-----------------------------------------------------------------------------
(* A retry controller driven in a loop: execute, the attempt fails and is    *)
(* appended to the history, on_failure decides                               *)

\* execute(history) of the constructed controller
LoopExecuteOut(r) ==
    IF r.kind = "Times" THEN ReturnValue(TimesExecute(r.history))
    ELSE GetNextValue(r.values, r.history)

\* on_failure(history) of the constructed controller
LoopDecision(r) ==
    IF r.kind = "Times" THEN TimesOnFailure(r.attempts, r.history)
    ELSE OnFailureBase(r.values, r.history)

\* the flow runs the controller's execute to start the next attempt (also
\* when it is run again after a REVERT)
LoopExecute ==
    /\ retry.kind \in {"Times", "ForEach"}
    /\ retry.phase \in {"-", "retry", "reverted"}
    /\ LET out == LoopExecuteOut(retry) IN
       retry' = IF out.raised
                THEN [retry EXCEPT !.op = "execute", !.raised = TRUE,
                                   !.phase = "raised"]
                ELSE [retry EXCEPT !.op = "execute", !.value = out.value,
                                   !.results = Append(@, out.value),
                                   !.phase = "running"]

\* the attempt fails: (result, failures) is appended to the history
LoopAttemptFails ==
    /\ retry.phase = "running"
    /\ Len(retry.history) < MaxHistory
    /\ retry' = [retry EXCEPT !.history = Append(@, <<retry.value, "failures">>),
                              !.phase = "failed"]

\* the attempt succeeds: the loop ends
LoopAttemptSucceeds ==
    /\ retry.phase = "running"
    /\ retry' = [retry EXCEPT !.phase = "done"]

\* the flow asks the controller what to do about the failure
LoopOnFailure ==
    /\ retry.phase = "failed"
    /\ LET d == LoopDecision(retry) IN
       retry' = [retry EXCEPT !.op = "on_failure", !.decision = d,
                              !.retries = IF d = RETRY THEN @ + 1 ELSE @,
                              !.reverted = @ \/ d # RETRY,
                              !.phase = IF d = RETRY THEN "retry" ELSE "reverted"]

NextRetryLoop ==
    \/ (\E n \in 0..MaxAttempts : TimesConstruct(n)) /\ UNCHANGED retryRest
    \/ retry.kind = "none"
            /\ (\E values \in ValueSeqs : ForEachConstruct(values))
            /\ UNCHANGED retryRest
    \/ LoopExecute /\ UNCHANGED retryRest
    \/ LoopAttemptFails /\ UNCHANGED retryRest
    \/ LoopAttemptSucceeds /\ UNCHANGED retryRest
    \/ LoopOnFailure /\ UNCHANGED retryRest

SpecRetryLoop == Init /\ [][NextRetryLoop]_vars

\* how many attempts the controller allows
LoopLimit(r) == IF r.kind = "Times" THEN r.attempts ELSE Len(r.values)

\* C22: in a loop where each failed attempt appends (result, failures) to
\* the history, Times(attempts=n) and ForEach(values) answer RETRY at most n
\* resp. len(values) times, namely while the history is shorter than that,
\* and REVERT ever after; the successive results of ForEach.execute are the
\* candidate values in their original order, each occurrence used once.
C22_RetriesBounded ==
    retry.kind \in {"Times", "ForEach"} =>
        /\ retry.retries <= LoopLimit(retry)
        /\ retry.reverted => retry.decision = REVERT
        /\ retry.decision \in {"-", RETRY, REVERT}
        /\ retry.phase \in {"retry", "reverted"} =>
                (retry.decision = RETRY <=> Len(retry.history) < LoopLimit(retry))
        /\ retry.kind = "ForEach" =>
                /\ Len(retry.results) <= Len(retry.values)
                /\ retry.results = SubSeq(retry.values, 1, Len(retry.results))
                /\ retry.reverted => retry.results = retry.values
        /\ retry.kind = "Times" =>
                /\ ~retry.raised
                /\ \A i \in DOMAIN retry.results : retry.results[i] = i

C22_Witness ==
    /\ retry.kind = "ForEach"
    /\ retry.values = <<1, 2, 1>>
    /\ retry.results = <<1, 2, 1>>
    /\ retry.retries = 2
    /\ retry.phase = "raised"
    /\ retry.reverted

-----------------------------------------------------------------------------
(* TaskAction with a storage whose fetch_mapped_args / get may raise         *)

\* execute: fetch_mapped_args raises inside the try block: the failure is
\* persisted with FAILURE and re-raised; the listener is unbound
ExecuteFetchArgsRaise ==
    /\ pc = "execute_fetch"
    /\ frame' = [frame EXCEPT !.exc = FetchError]
    /\ storage' = ChangeState(storage, FAILURE, Failure(FetchError), "None")
    /\ trace' = trace \o ChangeStateTrace(FAILURE, Failure(FetchError), "None")
    /\ bound' = FALSE
    /\ outcome' = ExecuteFailureOutcome(Failure(FetchError))
    /\ pc' = "idle"
    /\ UNCHANGED <<taskProgress, entry>>

\* revert: fetch_mapped_args raises before the try block is entered: the
\* exception leaves the with block, which unbinds the listener, and revert
\* without any further storage call
RevertFetchArgsRaise ==
    /\ pc = "revert_fetch"
    /\ frame' = [frame EXCEPT !.exc = FetchError]
    /\ bound' = FALSE
    /\ outcome' = Raised(FetchError)
    /\ pc' = "idle"
    /\ UNCHANGED <<storage, trace, taskProgress, entry>>

\* revert: engine.storage.get raises while the arguments of task.revert are
\* evaluated, inside the try block: _change_state(FAILURE), re-raised
RevertGetResultRaise ==
    /\ pc = "revert_fetch"
    /\ frame' = [frame EXCEPT !.exc = FetchError]
    /\ storage' = ChangeState(storage, FAILURE, RevertFailureResult(storage.result), "None")
    /\ trace' = trace \o ChangeStateTrace(FAILURE, RevertFailureResult(storage.result), "None")
    /\ bound' = FALSE
    /\ outcome' = Raised(FetchError)
    /\ pc' = "idle"
    /\ UNCHANGED <<taskProgress, entry>>

NextFetchFault ==
    \/ NextAction
    \/ ExecuteFetchArgsRaise /\ UNCHANGED <<exVars, restVars>>
    \/ RevertFetchArgsRaise /\ UNCHANGED <<exVars, restVars>>
    \/ RevertGetResultRaise /\ UNCHANGED <<exVars, restVars>>

SpecFetchFault == Init /\ [][NextFetchFault]_vars

\* C23: whenever TaskAction.execute returns or raises the stored state is
\* SUCCESS or FAILURE, and whenever TaskAction.revert returns or raises it is
\* PENDING or FAILURE, also when fetching the mapped arguments or the stored
\* result raises.
C23_NoTransientState ==
    (pc = "idle" /\ frame.call # "none") =>
        IF frame.call = "execute"
        THEN storage.state \in {SUCCESS, FAILURE}
        ELSE storage.state \in {PENDING, FAILURE}

====
